---- MODULE Spec2Model ----
(***************************************************************************)
(* The OLAP engine of src/lib/olap-utils.ts (the later of the two copies   *)
(* of the library the file holds, lines 226-653): schema inference, the    *)
(* cube builder, the aggregation engine and the five operators, driven by  *)
(* a caller that holds one current cube and replaces it by each operator's *)
(* result.                                                                 *)
(*                                                                         *)
(* JavaScript values.  A coordinate or a record field is a string, a       *)
(* number or undefined; === never equates a number with a string.  A       *)
(* string is the sequence of its characters, so that String(), join(),     *)
(* split() and the regular expressions of drillUp are computed, not        *)
(* assumed.  Measure values of a cell are plain integers.                  *)
(***************************************************************************)
EXTENDS Integers, Sequences, FiniteSets, TLC

VARIABLES records,  \* the loaded DataPoint[]: [keys: Object.keys order, rows]
          cube,     \* the caller's current OLAPCube
          input,    \* the cube handed to the last operator, as it is after the call
          op,       \* the last operator applied, with its arguments
          now,      \* the clock new Date() reads; counts the operators applied
          call      \* the last direct call of aggregateData: arguments and result

vars == <<records, cube, input, op, now, call>>

----------------------------------------------------------------------------
(* Bounds of the model *)

MaxRecords == 2
MaxOps == 2
MaxColumnRows == 5

----------------------------------------------------------------------------
(* JavaScript values and strings *)

Num(n) == [t |-> "number", n |-> n, s |-> <<>>]
Str(s) == [t |-> "string", n |-> 0, s |-> s]
Undefined == [t |-> "undefined", n |-> 0, s |-> <<>>]

Digits == <<"0", "1", "2", "3", "4", "5", "6", "7", "8", "9">>

IsDigit(c) == \E i \in 1..Len(Digits) : Digits[i] = c

DigitValue(c) == (CHOOSE i \in 1..Len(Digits) : Digits[i] = c) - 1

AllDigits(s) == \A i \in 1..Len(s) : IsDigit(s[i])

RECURSIVE ToDecimal(_)
\* Number.prototype.toString of an integer
ToDecimal(n) ==
    IF n < 0 THEN <<"-">> \o ToDecimal(0 - n)
    ELSE IF n < Len(Digits) THEN <<Digits[n + 1]>>
    ELSE ToDecimal(n \div Len(Digits)) \o <<Digits[(n % Len(Digits)) + 1]>>

RECURSIVE ParseDigits(_)
\* the value of a string of decimal digits
ParseDigits(s) ==
    IF Len(s) = 0 THEN 0
    ELSE ParseDigits(SubSeq(s, 1, Len(s) - 1)) * Len(Digits) + DigitValue(s[Len(s)])

NaNText == <<"N", "a", "N">>
UndefinedText == <<"u", "n", "d", "e", "f", "i", "n", "e", "d">>

\* String(v), and `${v}`
ToStringJS(v) ==
    IF v.t = "number" THEN ToDecimal(v.n)
    ELSE IF v.t = "string" THEN v.s
    ELSE UndefinedText

\* Number(v) for the strings of the model (letters, digits, "-" and "|"):
\* an optional "-" and decimal digits is that integer, "" is 0, any other is NaN
ToNumberJS(v) ==
    IF v.t = "number" THEN [nan |-> FALSE, n |-> v.n]
    ELSE IF v.t = "undefined" THEN [nan |-> TRUE, n |-> 0]
    ELSE IF Len(v.s) = 0 THEN [nan |-> FALSE, n |-> 0]
    ELSE IF AllDigits(v.s) THEN [nan |-> FALSE, n |-> ParseDigits(v.s)]
    ELSE IF v.s[1] = "-" /\ Len(v.s) > 1 /\ AllDigits(Tail(v.s))
         THEN [nan |-> FALSE, n |-> 0 - ParseDigits(Tail(v.s))]
    ELSE [nan |-> TRUE, n |-> 0]

\* typeof v === 'number' || !isNaN(Number(v))
IsNumeric(v) == v.t = "number" \/ ~ToNumberJS(v).nan

\* a == b in place of a === b: a number equals the string that converts to it
LooseEquals(a, b) ==
    \/ a = b
    \/ a.t # b.t /\ ~ToNumberJS(a).nan /\ ~ToNumberJS(b).nan
                 /\ ToNumberJS(a).n = ToNumberJS(b).n

\* a === b
StrictEquals(a, b) == a = b

\* the truthiness of a value
Truthy(v) ==
    IF v.t = "number" THEN v.n # 0
    ELSE IF v.t = "string" THEN Len(v.s) > 0
    ELSE FALSE

RECURSIVE JoinWith(_, _)
\* Array.prototype.join: undefined elements give the empty string
JoinWith(vals, sep) ==
    IF Len(vals) = 0 THEN <<>>
    ELSE LET head == IF vals[1].t = "undefined" THEN <<>> ELSE ToStringJS(vals[1])
         IN  IF Len(vals) = 1 THEN head
             ELSE head \o sep \o JoinWith(Tail(vals), sep)

RECURSIVE SplitOn(_, _)
\* String.prototype.split on a one-character separator
SplitOn(s, c) ==
    IF \E i \in 1..Len(s) : s[i] = c
    THEN LET i == CHOOSE k \in 1..Len(s) : s[k] = c /\ \A j \in 1..(k - 1) : s[j] # c
         IN  <<SubSeq(s, 1, i - 1)>> \o SplitOn(SubSeq(s, i + 1, Len(s)), c)
    ELSE <<s>>

\* String.prototype.padStart(2, '0')
PadStart2(s) == IF Len(s) < 2 THEN <<"0">> \o s ELSE s

\* String.prototype.includes
Includes(s, sub) ==
    \E i \in 0..(Len(s) - Len(sub)) : SubSeq(s, i + 1, i + Len(sub)) = sub

RECURSIVE Unique(_)
\* [...new Set(values)]: the distinct values in first-seen order
Unique(vals) ==
    IF Len(vals) = 0 THEN <<>>
    ELSE LET init == Unique(SubSeq(vals, 1, Len(vals) - 1))
             last == vals[Len(vals)]
         IN  IF \E i \in 1..Len(init) : init[i] = last THEN init
             ELSE Append(init, last)

RECURSIVE SumSeq(_)
\* sumBy(values, v => v)
SumSeq(xs) == IF Len(xs) = 0 THEN 0 ELSE xs[1] + SumSeq(Tail(xs))

Range(f) == {f[x] : x \in DOMAIN f}

----------------------------------------------------------------------------
(* Column names.  A column, dimension or measure name is a TLA+ string (it *)
(* keys the coordinates and measures of a cell); Spelling gives the        *)
(* characters of the names schema inference inspects.                      *)

Spelling ==
    [Date     |-> <<"D", "a", "t", "e">>,
     Region   |-> <<"R", "e", "g", "i", "o", "n">>,
     Product  |-> <<"P", "r", "o", "d", "u", "c", "t">>,
     Category |-> <<"C", "a", "t", "e", "g", "o", "r", "y">>,
     Year     |-> <<"Y", "e", "a", "r">>,
     Sales    |-> <<"S", "a", "l", "e", "s">>,
     Profit   |-> <<"P", "r", "o", "f", "i", "t">>,
     Time     |-> <<"T", "i", "m", "e">>,
     Quantity |-> <<"Q", "u", "a", "n", "t", "i", "t", "y">>]

UpperCase == <<"A", "B", "C", "D", "E", "F", "G", "H", "I", "J", "K", "L", "M",
               "N", "O", "P", "Q", "R", "S", "T", "U", "V", "W", "X", "Y", "Z">>
LowerCase == <<"a", "b", "c", "d", "e", "f", "g", "h", "i", "j", "k", "l", "m",
               "n", "o", "p", "q", "r", "s", "t", "u", "v", "w", "x", "y", "z">>

\* String.prototype.toLowerCase
ToLowerCase(s) ==
    [i \in 1..Len(s) |->
        IF \E k \in 1..Len(UpperCase) : UpperCase[k] = s[i]
        THEN LowerCase[CHOOSE k \in 1..Len(UpperCase) : UpperCase[k] = s[i]]
        ELSE s[i]]

\* key.toLowerCase().includes(token)
NameIncludes(key, token) == Includes(ToLowerCase(Spelling[key]), token)

TokenSales == <<"s", "a", "l", "e", "s">>
TokenRevenue == <<"r", "e", "v", "e", "n", "u", "e">>
TokenProfit == <<"p", "r", "o", "f", "i", "t">>
TokenAmount == <<"a", "m", "o", "u", "n", "t">>
TokenQuantity == <<"q", "u", "a", "n", "t", "i", "t", "y">>
TokenDate == <<"d", "a", "t", "e">>
TokenTime == <<"t", "i", "m", "e">>

----------------------------------------------------------------------------
(* Schema inference *)

\* row[key]
Field(row, key) == IF key \in DOMAIN row THEN row[key] ELSE Undefined

\* data.map(row => row[key])
Column(data, key) == [i \in 1..Len(data.rows) |-> Field(data.rows[i], key)]

EmptyMap == [k \in {} |-> <<>>]

\* m[k] = v on an object used as a map
MapPut(m, k, v) == [x \in (DOMAIN m) \cup {k} |-> IF x = k THEN v ELSE m[x]]

NoHierarchy ==
    [present |-> FALSE, levels |-> <<>>, parentMap |-> EmptyMap, childMap |-> EmptyMap]

\* a test that also skips a column all of whose values convert to a number
SkippedAsMeasureOrNumeric(data, key) ==
    \/ NameIncludes(key, TokenSales)
    \/ NameIncludes(key, TokenRevenue)
    \/ NameIncludes(key, TokenProfit)
    \/ NameIncludes(key, TokenAmount)
    \/ NameIncludes(key, TokenQuantity)
    \/ \A i \in 1..Len(data.rows) : IsNumeric(Field(data.rows[i], key))

\* the test that skips a column in detectDimensions
SkippedAsMeasure(data, key) ==
    \/ NameIncludes(key, TokenSales)
    \/ NameIncludes(key, TokenRevenue)
    \/ NameIncludes(key, TokenProfit)
    \/ NameIncludes(key, TokenAmount)
    \/ /\ NameIncludes(key, TokenQuantity)
       /\ \A i \in 1..Len(data.rows) : Field(data.rows[i], key).t = "number"

\* numericValues.length > values.length * 0.8, as 5 * numeric > 4 * length
ThresholdNumerator == 4
ThresholdDenominator == 5

\* the name tested for 'date' only, not for 'time'
DimensionTypeDateOnly(key, values) ==
    LET numeric == Cardinality({i \in 1..Len(values) : IsNumeric(values[i])})
    IN  IF numeric * ThresholdDenominator > Len(values) * ThresholdNumerator
        THEN "numerical"
        ELSE IF NameIncludes(key, TokenDate) THEN "temporal"
        ELSE "categorical"

\* >= in place of >: a column with exactly 80% numeric values is numerical
DimensionTypeAtLeast(key, values) ==
    LET numeric == Cardinality({i \in 1..Len(values) : IsNumeric(values[i])})
    IN  IF numeric * ThresholdDenominator >= Len(values) * ThresholdNumerator
        THEN "numerical"
        ELSE IF NameIncludes(key, TokenDate) \/ NameIncludes(key, TokenTime)
        THEN "temporal"
        ELSE "categorical"

DimensionType(key, values) ==
    LET numeric == Cardinality({i \in 1..Len(values) : IsNumeric(values[i])})
    IN  IF numeric * ThresholdDenominator > Len(values) * ThresholdNumerator
        THEN "numerical"
        ELSE IF NameIncludes(key, TokenDate) \/ NameIncludes(key, TokenTime)
        THEN "temporal"
        ELSE "categorical"

\* one turn of dates.forEach: the parent and child entries of one date
DateHierarchyStep(h, date) ==
    LET parts == SplitOn(date, "-")
        year == parts[1]
        month == IF Len(parts) >= 2 THEN Str(parts[2]) ELSE Undefined
        monthKey == year \o <<"-">> \o ToStringJS(month)
        parent1 == MapPut(h.parentMap, date, monthKey)
        parent2 == MapPut(parent1, monthKey, year)
        child1 == IF year \in DOMAIN h.childMap THEN h.childMap
                  ELSE MapPut(h.childMap, year, <<>>)
        child2 == IF monthKey \in DOMAIN child1 THEN child1
                  ELSE MapPut(child1, monthKey, <<>>)
        child3 == MapPut(child2, year, Append(child2[year], Str(monthKey)))
        child4 == MapPut(child3, monthKey, Append(child3[monthKey], Str(date)))
    IN  [h EXCEPT !.parentMap = parent2, !.childMap = child4]

RECURSIVE DateHierarchyFold(_, _)
DateHierarchyFold(h, dates) ==
    IF Len(dates) = 0 THEN h
    ELSE DateHierarchyFold(DateHierarchyStep(h, dates[1]), Tail(dates))

\* the hierarchy of the column named Date: Year -> Month -> Day
DateHierarchy(values) ==
    DateHierarchyFold(
        [present |-> TRUE, levels |-> <<"Year", "Month", "Day">>,
         parentMap |-> EmptyMap, childMap |-> EmptyMap],
        [i \in 1..Len(values) |-> ToStringJS(values[i])])

\* one turn of products.forEach
ProductHierarchyStep(h, data, product) ==
    LET found == CHOOSE i \in 1..Len(data.rows) :
                    /\ StrictEquals(Field(data.rows[i], "Product"), product)
                    /\ \A j \in 1..(i - 1) :
                          ~StrictEquals(Field(data.rows[j], "Product"), product)
        category == Field(data.rows[found], "Category")
        catKey == ToStringJS(category)
        child1 == IF catKey \in DOMAIN h.childMap THEN h.childMap
                  ELSE MapPut(h.childMap, catKey, <<>>)
    IN  IF Truthy(category)
        THEN [h EXCEPT !.parentMap = MapPut(h.parentMap, ToStringJS(product), catKey),
                       !.childMap = MapPut(child1, catKey, Append(child1[catKey], product))]
        ELSE h

RECURSIVE ProductHierarchyFold(_, _, _)
ProductHierarchyFold(h, data, products) ==
    IF Len(products) = 0 THEN h
    ELSE ProductHierarchyFold(ProductHierarchyStep(h, data, products[1]), data,
                              Tail(products))

\* the hierarchy of the column named Product: Category -> Product
ProductHierarchy(data, uniqueValues) ==
    ProductHierarchyFold(
        [present |-> TRUE, levels |-> <<"Category", "Product">>,
         parentMap |-> EmptyMap, childMap |-> EmptyMap],
        data, uniqueValues)

\* the Dimension detectDimensions pushes for a column it does not skip
MakeDimension(data, key) ==
    LET values == Column(data, key)
        uniqueValues == Unique(values)
    IN  [name |-> key,
         type |-> DimensionType(key, values),
         values |-> values,
         uniqueValues |-> uniqueValues,
         hierarchy |-> IF key = "Date" THEN DateHierarchy(values)
                       ELSE IF key = "Product" THEN ProductHierarchy(data, uniqueValues)
                       ELSE NoHierarchy]

RECURSIVE DetectDimensionsOver(_, _)
DetectDimensionsOver(data, keys) ==
    IF Len(keys) = 0 THEN <<>>
    ELSE IF SkippedAsMeasure(data, keys[1]) THEN DetectDimensionsOver(data, Tail(keys))
    ELSE <<MakeDimension(data, keys[1])>> \o DetectDimensionsOver(data, Tail(keys))

\* Object.keys(data[0] || {})
ObjectKeys(data) == IF Len(data.rows) = 0 THEN <<>> ELSE data.keys

detectDimensions(data) ==
    IF Len(data.rows) = 0 THEN <<>> ELSE DetectDimensionsOver(data, ObjectKeys(data))

DimensionNames(dimensions) == {dimensions[i].name : i \in 1..Len(dimensions)}

IsExplicitMeasure(key) ==
    \/ NameIncludes(key, TokenSales)
    \/ NameIncludes(key, TokenRevenue)
    \/ NameIncludes(key, TokenProfit)
    \/ NameIncludes(key, TokenAmount)
    \/ NameIncludes(key, TokenQuantity)

IsNumericColumn(data, key) ==
    \A i \in 1..Len(data.rows) : IsNumeric(Field(data.rows[i], key))

\* data.map(row => Number(row[key])).filter(v => !isNaN(v))
NumericValues(data, key) ==
    LET col == Column(data, key)
    IN  [i \in 1..Len(col) |-> ToNumberJS(col[i])]

RECURSIVE SumNumbers(_)
SumNumbers(xs) ==
    IF Len(xs) = 0 THEN 0
    ELSE (IF xs[1].nan THEN 0 ELSE xs[1].n) + SumNumbers(Tail(xs))

RECURSIVE DetectMeasuresOver(_, _, _)
DetectMeasuresOver(data, dimensions, keys) ==
    IF Len(keys) = 0 THEN <<>>
    ELSE LET key == keys[1]
             nums == NumericValues(data, key)
             rest == DetectMeasuresOver(data, dimensions, Tail(keys))
         IN  IF /\ key \notin DimensionNames(dimensions)
                /\ (IsExplicitMeasure(key) \/ IsNumericColumn(data, key))
                /\ \E i \in 1..Len(nums) : ~nums[i].nan
             THEN <<[name |-> key, type |-> "sum", value |-> SumNumbers(nums)]>> \o rest
             ELSE rest

detectMeasures(data, dimensions) ==
    DetectMeasuresOver(data, dimensions, ObjectKeys(data))

\* Number(row[measure.name]) || 0
MeasureOfRow(row, name) ==
    LET x == ToNumberJS(Field(row, name)) IN IF x.nan THEN 0 ELSE x.n

\* a cell whose coordinates are the row's values converted with String()
CellOfRowStringCoordinates(row, dimensions, measures) ==
    [coordinates |-> [d \in DimensionNames(dimensions) |->
                         Str(ToStringJS(Field(row, d)))],
     measures |-> [m \in {measures[i].name : i \in 1..Len(measures)} |->
                      MeasureOfRow(row, m)]]

\* the CubeCell of one row
CellOfRow(row, dimensions, measures) ==
    [coordinates |-> [d \in DimensionNames(dimensions) |-> Field(row, d)],
     measures |-> [m \in {measures[i].name : i \in 1..Len(measures)} |->
                      MeasureOfRow(row, m)]]

createOLAPCube(data, clock) ==
    LET dimensions == detectDimensions(data)
        measures == detectMeasures(data, dimensions)
    IN  [dimensions |-> dimensions,
         measures |-> measures,
         data |-> [i \in 1..Len(data.rows) |->
                      CellOfRow(data.rows[i], dimensions, measures)],
         metadata |-> [totalRecords |-> Len(data.rows), lastUpdated |-> clock]]

----------------------------------------------------------------------------
(* Aggregation engine *)

\* cell.coordinates[dim]
Coord(cell, dim) ==
    IF dim \in DOMAIN cell.coordinates THEN cell.coordinates[dim] ELSE Undefined

\* cell.measures[measureName] || 0
MeasureOr0(cell, measureName) ==
    IF measureName \in DOMAIN cell.measures THEN cell.measures[measureName] ELSE 0

\* the groupBy iteratee: groupByDimensions.map(dim => cell.coordinates[dim]).join('|')
GroupKey(cell, groupByDimensions) ==
    JoinWith([i \in 1..Len(groupByDimensions) |-> Coord(cell, groupByDimensions[i])],
             <<"|">>)

\* a property key that is an array index: Object.values lists these first, ascending
\* (every key of up to nine digits is below 2^32 - 1)
IsArrayIndex(k) ==
    /\ Len(k) > 0
    /\ Len(k) <= 9
    /\ AllDigits(k)
    /\ (Len(k) = 1 \/ k[1] # "0")

RECURSIVE SortIndexKeys(_)
\* a set of array-index keys in ascending numeric order
SortIndexKeys(S) ==
    IF S = {} THEN <<>>
    ELSE LET least == CHOOSE k \in S : \A j \in S : ParseDigits(k) <= ParseDigits(j)
         IN  <<least>> \o SortIndexKeys(S \ {least})

\* the keys of groupBy's result in the order Object.values visits them
GroupKeys(data, groupByDimensions) ==
    LET seen == Unique([i \in 1..Len(data) |-> GroupKey(data[i], groupByDimensions)])
        IsOther(k) == ~IsArrayIndex(k)
    IN  SortIndexKeys({seen[i] : i \in {j \in 1..Len(seen) : IsArrayIndex(seen[j])}})
        \o SelectSeq(seen, IsOther)

RECURSIVE MinSeq(_)
MinSeq(xs) ==
    IF Len(xs) = 1 THEN xs[1]
    ELSE LET m == MinSeq(Tail(xs)) IN IF xs[1] <= m THEN xs[1] ELSE m

RECURSIVE MaxSeq(_)
MaxSeq(xs) ==
    IF Len(xs) = 1 THEN xs[1]
    ELSE LET m == MaxSeq(Tail(xs)) IN IF xs[1] >= m THEN xs[1] ELSE m

\* the value of the group's first cell in place of the aggregate
FirstValue(values, aggregationType) == values[1]

\* the sum whatever the aggregation type
SumWhateverType(values, aggregationType) == SumSeq(values)

\* meanBy(values, v => v): the sum divided by the length, kept as the fraction
\* num / den so that the quotient is exact (the operators of the cube call
\* aggregateData with 'sum' only; no cube holds a fraction)
MeanBy(values) == [num |-> SumSeq(values), den |-> Len(values)]

\* the switch on aggregationType
AggregatedValue(values, aggregationType) ==
    CASE aggregationType = "sum" -> SumSeq(values)
      [] aggregationType = "average" -> MeanBy(values)
      [] aggregationType = "count" -> Len(values)
      [] aggregationType = "min" -> IF Len(values) = 0 THEN 0 ELSE MinSeq(values)
      [] aggregationType = "max" -> IF Len(values) = 0 THEN 0 ELSE MaxSeq(values)

\* the cell of one group
GroupCell(group, groupByDimensions, measureName, aggregationType) ==
    [coordinates |-> [d \in Range(groupByDimensions) |-> Coord(group[1], d)],
     measures |-> [m \in {measureName} |->
                      AggregatedValue([i \in 1..Len(group) |->
                                          MeasureOr0(group[i], measureName)],
                                      aggregationType)]]

aggregateData(data, groupByDimensions, measureName, aggregationType) ==
    LET keys == GroupKeys(data, groupByDimensions)
        Group(k) == LET InGroup(cell) == GroupKey(cell, groupByDimensions) = k
                    IN  SelectSeq(data, InGroup)
    IN  [i \in 1..Len(keys) |->
            GroupCell(Group(keys[i]), groupByDimensions, measureName, aggregationType)]

----------------------------------------------------------------------------
(* Operators *)

\* the cube with other cells and the count of records it had
WithDataStaleCount(c, data) == [c EXCEPT !.data = data]

\* { ...cube, data, metadata: { ...cube.metadata, totalRecords: data.length } }
WithData(c, data) ==
    [c EXCEPT !.data = data, !.metadata.totalRecords = Len(data)]

\* a slice that also removes the sliced dimension from the retained cells
sliceDroppingDimension(c, dimension, value) ==
    LET Keep(cell) == StrictEquals(Coord(cell, dimension), value)
        kept == SelectSeq(c.data, Keep)
    IN  WithData(c, [i \in 1..Len(kept) |->
                        [kept[i] EXCEPT !.coordinates =
                            [d \in (DOMAIN kept[i].coordinates) \ {dimension} |->
                                kept[i].coordinates[d]]]])

sliceCube(c, dimension, value) ==
    LET Keep(cell) == StrictEquals(Coord(cell, dimension), value)
    IN  WithData(c, SelectSeq(c.data, Keep))

\* some() in place of every(): one satisfied condition retains the cell
diceSome(c, conditions) ==
    LET Keep(cell) ==
            \E dimension \in DOMAIN conditions :
                \E i \in 1..Len(conditions[dimension]) :
                    conditions[dimension][i] = Coord(cell, dimension)
    IN  WithData(c, SelectSeq(c.data, Keep))

\* values[0] === coordinate in place of values.includes(coordinate)
diceFirstValueOnly(c, conditions) ==
    LET Keep(cell) ==
            \A dimension \in DOMAIN conditions :
                /\ Len(conditions[dimension]) > 0
                /\ conditions[dimension][1] = Coord(cell, dimension)
    IN  WithData(c, SelectSeq(c.data, Keep))

\* conditions: a map from dimension names to lists of values
diceCube(c, conditions) ==
    LET Keep(cell) ==
            \A dimension \in DOMAIN conditions :
                \E i \in 1..Len(conditions[dimension]) :
                    conditions[dimension][i] = Coord(cell, dimension)
    IN  WithData(c, SelectSeq(c.data, Keep))

\* cube.dimensions.find(d => d.name === dimension)
HasDimension(c, dimension) ==
    \E i \in 1..Len(c.dimensions) : c.dimensions[i].name = dimension

FindDimension(c, dimension) ==
    c.dimensions[CHOOSE i \in 1..Len(c.dimensions) :
                    /\ c.dimensions[i].name = dimension
                    /\ \A j \in 1..(i - 1) : c.dimensions[j].name # dimension]

\* the union of the children, in hierarchy.childMap, of the values now present
NextLevelValues(c, dimension) ==
    LET childMap == FindDimension(c, dimension).hierarchy.childMap
        present == {ToStringJS(Coord(c.data[i], dimension)) : i \in 1..Len(c.data)}
    IN  UNION {Range(childMap[k]) : k \in present \cap DOMAIN childMap}

\* drillDown without the return on an empty set of next-level values
drillDownAlwaysFiltering(c, dimension, targetLevel) ==
    IF Len(c.data) = 0 THEN c
    ELSE IF ~HasDimension(c, dimension) THEN c
    ELSE IF ~FindDimension(c, dimension).hierarchy.present THEN c
    ELSE IF Len(c.measures) = 0 THEN c
    ELSE LET Keep(cell) ==
                 Str(ToStringJS(Coord(cell, dimension))) \in NextLevelValues(c, dimension)
         IN  WithData(c, SelectSeq(c.data, Keep))

\* for every cell one cell for each child of its coordinate for the dimension
RECURSIVE ExpandCells(_, _, _)
ExpandCells(data, dimension, childMap) ==
    IF Len(data) = 0 THEN <<>>
    ELSE LET key == ToStringJS(Coord(data[1], dimension))
             children == IF key \in DOMAIN childMap THEN childMap[key] ELSE <<>>
         IN  [k \in 1..Len(children) |->
                 [data[1] EXCEPT !.coordinates =
                     MapPut(data[1].coordinates, dimension, children[k])]]
             \o ExpandCells(Tail(data), dimension, childMap)

\* a drillDown that expands every cell into one cell for each of its children
drillDownExpanding(c, dimension, targetLevel) ==
    IF Len(c.data) = 0 THEN c
    ELSE IF ~HasDimension(c, dimension) THEN c
    ELSE IF ~FindDimension(c, dimension).hierarchy.present THEN c
    ELSE IF Len(c.measures) = 0 THEN c
    ELSE IF NextLevelValues(c, dimension) = {} THEN c
    ELSE WithData(c, ExpandCells(c.data, dimension,
                                 FindDimension(c, dimension).hierarchy.childMap))

\* a drillDown that re-aggregates the retained cells by all dimensions
drillDownReaggregating(c, dimension, targetLevel) ==
    IF Len(c.data) = 0 THEN c
    ELSE IF ~HasDimension(c, dimension) THEN c
    ELSE IF ~FindDimension(c, dimension).hierarchy.present THEN c
    ELSE IF Len(c.measures) = 0 THEN c
    ELSE IF NextLevelValues(c, dimension) = {} THEN c
    ELSE LET Keep(cell) ==
                 Str(ToStringJS(Coord(cell, dimension))) \in NextLevelValues(c, dimension)
             groupByDims == [i \in 1..Len(c.dimensions) |-> c.dimensions[i].name]
         IN  WithData(c, aggregateData(SelectSeq(c.data, Keep), groupByDims,
                                       c.measures[1].name, "sum"))

drillDown(c, dimension, targetLevel) ==
    IF Len(c.data) = 0 THEN c
    ELSE IF ~HasDimension(c, dimension) THEN c
    ELSE IF ~FindDimension(c, dimension).hierarchy.present THEN c
    ELSE IF Len(c.measures) = 0 THEN c
    ELSE IF NextLevelValues(c, dimension) = {} THEN c
    ELSE LET Keep(cell) ==
                 Str(ToStringJS(Coord(cell, dimension))) \in NextLevelValues(c, dimension)
         IN  WithData(c, SelectSeq(c.data, Keep))

\* /^\d{4}-\d{2}-\d{2}$/.test(s)
IsDayText(s) ==
    /\ Len(s) = 10
    /\ AllDigits(SubSeq(s, 1, 4)) /\ s[5] = "-"
    /\ AllDigits(SubSeq(s, 6, 7)) /\ s[8] = "-"
    /\ AllDigits(SubSeq(s, 9, 10))

\* /^\d{4}-\d{2}$/.test(s)
IsMonthText(s) ==
    /\ Len(s) = 7
    /\ AllDigits(SubSeq(s, 1, 4)) /\ s[5] = "-"
    /\ AllDigits(SubSeq(s, 6, 7))

\* /^\d{4}$/.test(s)
IsYearText(s) == Len(s) = 4 /\ AllDigits(s)

NullDate == [null |-> TRUE, valid |-> FALSE, y |-> 0, m |-> 0, d |-> 0]

\* new Date("YYYY-MM-DD"): midnight UTC of that day, or an Invalid Date.  (A day
\* of 29 to 31 past the end of its month is not among the model's dates.)
IsoDate(y, m, d) ==
    [null |-> FALSE, valid |-> (m >= 1 /\ m <= 12 /\ d >= 1 /\ d <= 31),
     y |-> y, m |-> m, d |-> d]

\* parseToDate.  The strings of the model that match none of the three patterns
\* hold no digit, and Date.parse gives NaN for them.
parseToDate(val) ==
    IF val.t = "undefined" THEN NullDate
    ELSE LET s == ToStringJS(val)
         IN  IF IsDayText(s)
             THEN IsoDate(ParseDigits(SubSeq(s, 1, 4)), ParseDigits(SubSeq(s, 6, 7)),
                          ParseDigits(SubSeq(s, 9, 10)))
             ELSE IF IsMonthText(s)
             THEN IsoDate(ParseDigits(SubSeq(s, 1, 4)), ParseDigits(SubSeq(s, 6, 7)), 1)
             ELSE IF IsYearText(s)
             THEN IsoDate(ParseDigits(s), 1, 1)
             ELSE NullDate

\* getFullYear() and getMonth() + 1 read the local calendar day of midnight UTC:
\* the same day at an offset of zero or east of Greenwich, the day before west of it
LocalYearMonth(d, tzWest) ==
    IF ~tzWest \/ d.d > 1 THEN [y |-> d.y, m |-> d.m]
    ELSE IF d.m > 1 THEN [y |-> d.y, m |-> d.m - 1]
    ELSE [y |-> d.y - 1, m |-> 12]

RECURSIVE detectGranularity(_)
detectGranularity(values) ==
    IF Len(values) = 0 THEN "day"
    ELSE LET s == ToStringJS(values[1])
         IN  IF IsDayText(s) THEN "day"
             ELSE IF IsMonthText(s) THEN "month"
             ELSE IF IsYearText(s) THEN "year"
             ELSE detectGranularity(Tail(values))

\* currentGran === 'day' ? 'month' : currentGran === 'month' ? 'year' : 'year'
Coarser(currentGran) == IF currentGran = "day" THEN "month" ELSE "year"

\* the coordinate as it was, at no coarser level
OriginalCoord(original, coarser, tzWest) == original

\* the coordinate drillUp writes for one cell
NewCoord(original, coarser, tzWest) ==
    LET d == parseToDate(original)
        local == LocalYearMonth(d, tzWest)
        y == IF d.valid THEN ToDecimal(local.y) ELSE NaNText
        m == PadStart2(IF d.valid THEN ToDecimal(local.m) ELSE NaNText)
    IN  IF d.null THEN original
        ELSE IF coarser = "month" THEN Str(y \o <<"-">> \o m)
        ELSE Str(y)

\* cube.data.map(cell => ({ ...cell, coordinates: { ...cell.coordinates, [dimension]: newCoord } }))
Transformed(c, dimension, tzWest) ==
    LET coarser == Coarser(detectGranularity(
                       [i \in 1..Len(c.data) |-> Coord(c.data[i], dimension)]))
    IN  [i \in 1..Len(c.data) |->
            [c.data[i] EXCEPT !.coordinates =
                MapPut(c.data[i].coordinates, dimension,
                       NewCoord(Coord(c.data[i], dimension), coarser, tzWest))]]

\* drillUp without the return on a cube that holds no cell
drillUpOfEmptyCube(c, dimension, sourceLevel, tzWest, clock) ==
    IF Len(c.measures) = 0 THEN c
    ELSE LET measureName == c.measures[1].name
             groupByDims == [i \in 1..Len(c.dimensions) |-> c.dimensions[i].name]
             aggregated == aggregateData(Transformed(c, dimension, tzWest), groupByDims,
                                         measureName, "sum")
             uniqueValues == Unique([i \in 1..Len(aggregated) |->
                                        Coord(aggregated[i], dimension)])
             newDim == [FindDimension(c, dimension) EXCEPT
                           !.uniqueValues = uniqueValues, !.values = uniqueValues]
             total == SumSeq([i \in 1..Len(aggregated) |->
                                 MeasureOr0(aggregated[i], measureName)])
         IN  [dimensions |-> [i \in 1..Len(c.dimensions) |->
                                 IF c.dimensions[i].name = dimension THEN newDim
                                 ELSE c.dimensions[i]],
              measures |-> <<[name |-> measureName, type |-> "sum", value |-> total]>>,
              data |-> aggregated,
              metadata |-> [totalRecords |-> Len(aggregated), lastUpdated |-> clock]]

\* drillUp aggregating with 'count' in place of 'sum'
drillUpCounting(c, dimension, sourceLevel, tzWest, clock) ==
    IF Len(c.data) = 0 THEN c
    ELSE IF Len(c.measures) = 0 THEN c
    ELSE LET measureName == c.measures[1].name
             groupByDims == [i \in 1..Len(c.dimensions) |-> c.dimensions[i].name]
             aggregated == aggregateData(Transformed(c, dimension, tzWest), groupByDims,
                                         measureName, "count")
             total == SumSeq([i \in 1..Len(aggregated) |->
                                 MeasureOr0(aggregated[i], measureName)])
         IN  [c EXCEPT !.measures = <<[name |-> measureName, type |-> "sum",
                                       value |-> total]>>,
                       !.data = aggregated,
                       !.metadata = [totalRecords |-> Len(aggregated),
                                     lastUpdated |-> clock]]

\* tzWest: whether the local time zone is behind UTC; clock: what new Date() reads
\* a drillUp that keeps the measure list of the cube it is applied to
drillUpKeepingMeasures(c, dimension, sourceLevel, tzWest, clock) ==
    IF Len(c.data) = 0 THEN c
    ELSE IF Len(c.measures) = 0 THEN c
    ELSE LET measureName == c.measures[1].name
             groupByDims == [i \in 1..Len(c.dimensions) |-> c.dimensions[i].name]
             aggregated == aggregateData(Transformed(c, dimension, tzWest), groupByDims,
                                         measureName, "sum")
             uniqueValues == Unique([i \in 1..Len(aggregated) |->
                                        Coord(aggregated[i], dimension)])
             newDim == [FindDimension(c, dimension) EXCEPT
                           !.uniqueValues = uniqueValues, !.values = uniqueValues]
         IN  [dimensions |-> [i \in 1..Len(c.dimensions) |->
                                 IF c.dimensions[i].name = dimension THEN newDim
                                 ELSE c.dimensions[i]],
              measures |-> c.measures,
              data |-> aggregated,
              metadata |-> [totalRecords |-> Len(aggregated), lastUpdated |-> clock]]

\* a drillUp that rewrites the coordinates and does not aggregate the cells
drillUpWithoutAggregating(c, dimension, sourceLevel, tzWest, clock) ==
    IF Len(c.data) = 0 THEN c
    ELSE IF Len(c.measures) = 0 THEN c
    ELSE LET measureName == c.measures[1].name
             transformed == Transformed(c, dimension, tzWest)
             uniqueValues == Unique([i \in 1..Len(transformed) |->
                                        Coord(transformed[i], dimension)])
             newDim == [FindDimension(c, dimension) EXCEPT
                           !.uniqueValues = uniqueValues, !.values = uniqueValues]
             total == SumSeq([i \in 1..Len(transformed) |->
                                 MeasureOr0(transformed[i], measureName)])
         IN  [dimensions |-> [i \in 1..Len(c.dimensions) |->
                                 IF c.dimensions[i].name = dimension THEN newDim
                                 ELSE c.dimensions[i]],
              measures |-> <<[name |-> measureName, type |-> "sum", value |-> total]>>,
              data |-> transformed,
              metadata |-> [totalRecords |-> Len(transformed), lastUpdated |-> clock]]

drillUp(c, dimension, sourceLevel, tzWest, clock) ==
    IF Len(c.data) = 0 THEN c
    ELSE IF Len(c.measures) = 0 THEN c
    ELSE LET measureName == c.measures[1].name
             groupByDims == [i \in 1..Len(c.dimensions) |-> c.dimensions[i].name]
             aggregated == aggregateData(Transformed(c, dimension, tzWest), groupByDims,
                                         measureName, "sum")
             uniqueValues == Unique([i \in 1..Len(aggregated) |->
                                        Coord(aggregated[i], dimension)])
             newDim == [FindDimension(c, dimension) EXCEPT
                           !.uniqueValues = uniqueValues, !.values = uniqueValues]
             total == SumSeq([i \in 1..Len(aggregated) |->
                                 MeasureOr0(aggregated[i], measureName)])
         IN  [dimensions |-> [i \in 1..Len(c.dimensions) |->
                                 IF c.dimensions[i].name = dimension THEN newDim
                                 ELSE c.dimensions[i]],
              measures |-> <<[name |-> measureName, type |-> "sum", value |-> total]>>,
              data |-> aggregated,
              metadata |-> [totalRecords |-> Len(aggregated), lastUpdated |-> clock]]

\* null in an AxisAssignment
Null == "(null)"

\* the three axes without the filter that drops the nulls
AxesUnfiltered(newAxisAssignment) ==
    <<newAxisAssignment.x, newAxisAssignment.y, newAxisAssignment.z>>

\* [x, y, z].filter(d => typeof d === 'string' && d !== null)
Axes(newAxisAssignment) ==
    LET IsSet(d) == d # Null
    IN  SelectSeq(<<newAxisAssignment.x, newAxisAssignment.y, newAxisAssignment.z>>, IsSet)

\* the first measure whatever the assignment names
PivotMeasureFirstOnly(c, newAxisAssignment) ==
    IF Len(c.measures) > 0 THEN c.measures[1].name
    ELSE newAxisAssignment.measure

\* newAxisAssignment.measure || cube.measures[0]?.name || null
PivotMeasure(c, newAxisAssignment) ==
    IF newAxisAssignment.measure # Null THEN newAxisAssignment.measure
    ELSE IF Len(c.measures) > 0 THEN c.measures[1].name
    ELSE Null

\* the Dimension pivotCube builds for one axis
PivotDimension(c, aggregated, axisName) ==
    LET uniqueValues == Unique([i \in 1..Len(aggregated) |-> Coord(aggregated[i], axisName)])
    IN  IF HasDimension(c, axisName)
        THEN [FindDimension(c, axisName) EXCEPT !.uniqueValues = uniqueValues]
        ELSE [name |-> axisName, type |-> "categorical", values |-> uniqueValues,
              uniqueValues |-> uniqueValues, hierarchy |-> NoHierarchy]

\* a pivot that keeps the input's dimension list in place of the axes' dimensions
pivotKeepingDimensions(c, newAxisAssignment, clock) ==
    LET axes == Axes(newAxisAssignment)
        measureName == PivotMeasure(c, newAxisAssignment)
        aggregated == aggregateData(c.data, axes, measureName, "sum")
        total == SumSeq([i \in 1..Len(aggregated) |-> MeasureOr0(aggregated[i], measureName)])
    IN  IF Len(axes) = 0 THEN c
        ELSE IF measureName = Null THEN c
        ELSE [dimensions |-> c.dimensions,
              measures |-> <<[name |-> measureName, type |-> "sum", value |-> total]>>,
              data |-> aggregated,
              metadata |-> [totalRecords |-> Len(aggregated), lastUpdated |-> clock]]

pivotCube(c, newAxisAssignment, clock) ==
    LET axes == Axes(newAxisAssignment)
        measureName == PivotMeasure(c, newAxisAssignment)
        aggregated == aggregateData(c.data, axes, measureName, "sum")
        total == SumSeq([i \in 1..Len(aggregated) |-> MeasureOr0(aggregated[i], measureName)])
    IN  IF Len(axes) = 0 THEN c
        ELSE IF measureName = Null THEN c
        ELSE [dimensions |-> [i \in 1..Len(axes) |-> PivotDimension(c, aggregated, axes[i])],
              measures |-> <<[name |-> measureName, type |-> "sum", value |-> total]>>,
              data |-> aggregated,
              metadata |-> [totalRecords |-> Len(aggregated), lastUpdated |-> clock]]

----------------------------------------------------------------------------
(* The datasets of the model: up to MaxRecords rows of one of three shapes *)

East == <<"E", "a", "s", "t">>
West == <<"W", "e", "s", "t">>
Jan15 == <<"2", "0", "2", "4", "-", "0", "1", "-", "1", "5">>
Feb01 == <<"2", "0", "2", "4", "-", "0", "2", "-", "0", "1">>
Text2024 == <<"2", "0", "2", "4">>
Text2023 == <<"2", "0", "2", "3">>

Shapes ==
    { [keys |-> <<"Date", "Region", "Sales">>,
       vals |-> [Date |-> {Str(Jan15), Str(Feb01)},
                 Region |-> {Str(East), Str(West)},
                 Sales |-> {Num(10)}]],
      [keys |-> <<"Product", "Category", "Sales", "Profit">>,
       vals |-> [Product |-> {Str(<<"A">>), Str(<<"B">>)},
                 Category |-> {Str(<<"A">>), Str(<<"C">>)},
                 Sales |-> {Num(10), Num(0 - 5)},
                 Profit |-> {Num(5), Str(<<"x">>)}]],
      [keys |-> <<"Year", "Sales">>,
       vals |-> [Year |-> {Num(2024), Str(Text2024), Str(Text2023)},
                 Sales |-> {Num(10), Str(<<"x">>)}]] }

AllValues == UNION {UNION Range(sh.vals) : sh \in Shapes}

RowsOf(sh) == {r \in [Range(sh.keys) -> AllValues] : \A k \in DOMAIN r : r[k] \in sh.vals[k]}

DatasetsOf(sh) ==
    {[keys |-> sh.keys, rows |-> rows] :
        rows \in UNION {[1..n -> RowsOf(sh)] : n \in 0..MaxRecords}}

Datasets == UNION {DatasetsOf(sh) : sh \in Shapes}

----------------------------------------------------------------------------
(* The caller: one current cube, replaced by the result of each operator *)

NoAssignment == [x |-> Null, y |-> Null, z |-> Null, measure |-> Null]

Operation(type) ==
    [type |-> type, dimension |-> Null, value |-> Undefined, conditions |-> EmptyMap,
     assignment |-> NoAssignment, tzWest |-> FALSE]

\* drillUp assigning the new coordinate to the cell it was given, in place of
\* the copy it makes
InputAfterInPlaceDrillUp(c, o) ==
    IF o.type = "drill-up" /\ Len(c.data) > 0 /\ Len(c.measures) > 0
    THEN [c EXCEPT !.data = Transformed(c, o.dimension, o.tzWest)]
    ELSE c

\* The input cube after a call.  No operator assigns to an object it was given:
\* filter, map and the spreads build new arrays and objects, and aggregateData
\* assigns only to the coordinates object it has just created.
InputAfter(c, o) == c

\* no direct call of aggregateData has been made
NoCall ==
    [data |-> <<>>, groupByDimensions |-> <<>>, measureName |-> Null,
     aggregationType |-> Null, result |-> <<>>]

Init ==
    /\ records \in Datasets
    /\ cube = createOLAPCube(records, 0)
    /\ input = cube
    /\ op = Operation("load")
    /\ now = 0
    /\ call = NoCall

\* The arguments the model applies the operators to: the names of the cube's
\* dimensions and one name it does not hold; for a dimension the values now
\* present and one more; allowed-value lists of up to two of these values for
\* one dimension, and one present value each for two dimensions.
DimensionArgs == DimensionNames(cube.dimensions) \cup {"Missing"}

PresentValues(d) == {Coord(cube.data[i], d) : i \in 1..Len(cube.data)} \ {Undefined}

ValueArgs(d) == PresentValues(d) \cup {Str(Text2024)}

RECURSIVE SetToSeq(_)
SetToSeq(S) ==
    IF S = {} THEN <<>>
    ELSE LET x == CHOOSE y \in S : TRUE IN <<x>> \o SetToSeq(S \ {x})

ListArgs(d) == {SetToSeq(S) : S \in {T \in SUBSET ValueArgs(d) : Cardinality(T) <= 2}}

ConditionArgs ==
    {EmptyMap}
    \cup UNION {{[k \in {d} |-> list] : list \in ListArgs(d)} : d \in DimensionArgs}
    \cup UNION {{[k \in {d, e} |-> IF k = d THEN <<v>> ELSE <<w>>] :
                    v \in PresentValues(d), w \in PresentValues(e)} :
                d \in DimensionArgs, e \in DimensionArgs}

FirstDimension == IF Len(cube.dimensions) = 0 THEN "Missing" ELSE cube.dimensions[1].name

LastDimension ==
    IF Len(cube.dimensions) = 0 THEN "Missing"
    ELSE cube.dimensions[Len(cube.dimensions)].name

\* an axis assignment: x, y and z each null or a name, in and out of the cube's
\* order, with repeats; the measure null or a name that is not the first measure
AssignmentArgs ==
    {[x |-> x, y |-> y, z |-> z, measure |-> m] :
        x \in {Null, LastDimension, "Missing"},
        y \in {Null, FirstDimension},
        z \in {Null, LastDimension},
        m \in {Null, "Profit"}}

Applied(o, result) ==
    /\ now < MaxOps
    /\ op' = o
    /\ input' = InputAfter(cube, o)
    /\ cube' = result
    /\ now' = now + 1
    /\ UNCHANGED <<records, call>>

Slice ==
    \E d \in DimensionArgs : \E v \in ValueArgs(d) :
        Applied([Operation("slice") EXCEPT !.dimension = d, !.value = v],
                sliceCube(cube, d, v))

Dice ==
    \E conditions \in ConditionArgs :
        Applied([Operation("dice") EXCEPT !.conditions = conditions],
                diceCube(cube, conditions))

DrillDown ==
    \E d \in DimensionArgs :
        Applied([Operation("drill-down") EXCEPT !.dimension = d],
                drillDown(cube, d, "detailed"))

DrillUp ==
    \E d \in DimensionArgs : \E tzWest \in BOOLEAN :
        Applied([Operation("drill-up") EXCEPT !.dimension = d, !.tzWest = tzWest],
                drillUp(cube, d, "summary", tzWest, now + 1))

Pivot ==
    \E a \in AssignmentArgs :
        Applied([Operation("pivot") EXCEPT !.assignment = a], pivotCube(cube, a, now + 1))

Next == Slice \/ Dice \/ DrillDown \/ DrillUp \/ Pivot

Spec == Init /\ [][Next]_vars

\* aggregateData is exported: a caller applies it to the cells of the loaded
\* cube, with grouping dimensions, a measure name and an aggregation type of
\* its choice.  The grouping dimensions are none, one name (of the cube or
\* not) or all the cube's dimensions; the measure is one of the cube's or one
\* the cells may not hold.
AggregationTypes == {"sum", "average", "count", "min", "max"}

GroupArgs ==
    {<<>>, [i \in 1..Len(cube.dimensions) |-> cube.dimensions[i].name]}
        \cup {<<d>> : d \in DimensionArgs}

MeasureArgs == {cube.measures[i].name : i \in 1..Len(cube.measures)} \cup {"Profit"}

Aggregate ==
    /\ call = NoCall
    /\ \E groupByDimensions \in GroupArgs : \E measureName \in MeasureArgs :
          \E aggregationType \in AggregationTypes :
              call' = [data |-> cube.data,
                       groupByDimensions |-> groupByDimensions,
                       measureName |-> measureName,
                       aggregationType |-> aggregationType,
                       result |-> aggregateData(cube.data, groupByDimensions,
                                                measureName, aggregationType)]
    /\ UNCHANGED <<records, cube, input, op, now>>

SpecAggregate == Init /\ [][Aggregate]_vars

----------------------------------------------------------------------------
(* Loading.  The page starts with no data and no cube; handleDataLoaded    *)
(* builds the cube of whatever record set is loaded.  (A later load builds *)
(* its cube from the new record set alone, as the first does, and reaches  *)
(* no other state.)  The record sets loaded are those of the three shapes, *)
(* record sets of one Date column whose values are days, months and years, *)
(* and record sets of one column of up to MaxColumnRows values that are a  *)
(* number or a string that is no number.                                   *)

Jan == <<"2", "0", "2", "4", "-", "0", "1">>

DateForms ==
    [keys |-> <<"Date">>, vals |-> [Date |-> {Str(Jan15), Str(Jan), Str(Text2024)}]]

DateDatasets ==
    {[keys |-> DateForms.keys, rows |-> rows] :
        rows \in UNION {[1..n -> [{"Date"} -> DateForms.vals.Date]] : n \in 0..MaxRecords}}

ColumnDatasets ==
    UNION {{[keys |-> <<key>>, rows |-> rows] :
               rows \in UNION {[1..n -> [{key} -> {Num(7), Str(<<"x">>)}]] :
                                  n \in 0..MaxColumnRows}} :
           key \in {"Date", "Time", "Region", "Sales", "Quantity"}}

LoadableDatasets == Datasets \cup DateDatasets \cup ColumnDatasets

\* useState<DataPoint[]>([])
NotLoaded == [keys |-> <<>>, rows |-> <<>>]

InitLoading ==
    /\ records = NotLoaded
    /\ cube = Null
    /\ input = Null
    /\ op = Operation("none")
    /\ now = 0
    /\ call = NoCall

Load ==
    /\ op.type = "none"
    /\ \E loadedData \in LoadableDatasets :
          /\ records' = loadedData
          /\ cube' = createOLAPCube(loadedData, now)
    /\ input' = cube'
    /\ op' = Operation("load")
    /\ UNCHANGED <<now, call>>

SpecLoading == InitLoading /\ [][Load]_vars

----------------------------------------------------------------------------
(* Properties.  op is the operator applied last, input the cube it was     *)
(* given and cube its result.                                              *)

NameSeq(items) == [i \in 1..Len(items) |-> items[i].name]

Total(data, measureName) ==
    SumSeq([i \in 1..Len(data) |->
               IF measureName \in DOMAIN data[i].measures
               THEN data[i].measures[measureName] ELSE 0])

\* a and b are of the same type and hold the same value
SameTypeAndValue(a, b) == a.t = b.t /\ a.n = b.n /\ a.s = b.s

HoldsCoordinate(cell, d, v) ==
    d \in DOMAIN cell.coordinates /\ SameTypeAndValue(cell.coordinates[d], v)

\* C1: slice(cube, d, v) returns exactly the input cells whose coordinate for d
\* is of the same type and value as v, in their original order; the dimension
\* and measure lists are the input's, and totalRecords is the number of
\* retained cells.
C1_SliceRetainsExactMatches ==
    op.type = "slice" =>
        LET Matches(cell) == HoldsCoordinate(cell, op.dimension, op.value)
        IN  /\ cube.data = SelectSeq(input.data, Matches)
            /\ cube.dimensions = input.dimensions
            /\ cube.measures = input.measures
            /\ cube.metadata.totalRecords = Len(cube.data)

\* a slice by the string "2024" of a cube that holds the number 2024 and the
\* string "2024" in that dimension keeps the string's cell only
C1_Witness ==
    /\ op.type = "slice"
    /\ op.value = Str(Text2024)
    /\ \E i \in 1..Len(input.data) : Coord(input.data[i], op.dimension) = Num(2024)
    /\ Len(cube.data) = 1
    /\ Len(input.data) = 2

\* C2: dice(cube, conditions) retains exactly the cells whose coordinate, for
\* every dimension key of conditions, is in that key's list; an empty
\* conditions map retains every cell.
C2_DiceRetainsConjunction ==
    op.type = "dice" =>
        LET Allowed(cell) ==
                \A d \in DOMAIN op.conditions :
                    \E v \in Range(op.conditions[d]) :
                        SameTypeAndValue(Coord(cell, d), v)
        IN  /\ cube.data = SelectSeq(input.data, Allowed)
            /\ (DOMAIN op.conditions = {} => cube.data = input.data)

\* a dice on two dimensions that drops a cell which satisfies one of the two
\* conditions and keeps another
C2_Witness ==
    /\ op.type = "dice"
    /\ Cardinality(DOMAIN op.conditions) = 2
    /\ Len(cube.data) = 1
    /\ \E i \in 1..Len(input.data) :
          /\ input.data[i] # cube.data[1]
          /\ \E d \in DOMAIN op.conditions :
                Coord(input.data[i], d) \in Range(op.conditions[d])

\* C3: after a drillUp or a pivot, the total of each measure of the result over
\* the result's cells equals the total of that measure over the input's cells.
C3_AggregationPreservesTotal ==
    op.type \in {"drill-up", "pivot"} =>
        \A i \in 1..Len(cube.measures) :
            Total(cube.data, cube.measures[i].name)
                = Total(input.data, cube.measures[i].name)

\* a drillUp that merges two cells of different values into one
C3_Witness ==
    /\ op.type = "drill-up"
    /\ Len(input.data) = 2
    /\ Len(cube.data) = 1
    /\ input.data[1].measures[cube.measures[1].name] = 10
    /\ input.data[2].measures[cube.measures[1].name] = 0 - 5
    /\ cube.data[1].measures[cube.measures[1].name] = 5

\* the axis names of an assignment in the order x, y, z, the nulls skipped
SuppliedAxes(a) ==
    (IF a.x = Null THEN <<>> ELSE <<a.x>>)
        \o (IF a.y = Null THEN <<>> ELSE <<a.y>>)
        \o (IF a.z = Null THEN <<>> ELSE <<a.z>>)

MeasureResolvable(c, a) == a.measure # Null \/ Len(c.measures) > 0

\* C4: a pivot with at least one axis and a resolvable measure gives a cube
\* whose dimension list is exactly the supplied axis names, in the order x, y, z.
C4_PivotDimensionsAreAxes ==
    (op.type = "pivot" /\ Len(SuppliedAxes(op.assignment)) > 0
        /\ MeasureResolvable(input, op.assignment))
        => NameSeq(cube.dimensions) = SuppliedAxes(op.assignment)

\* a pivot on x and y, z null, that reverses the order of two input dimensions
C4_Witness ==
    /\ op.type = "pivot"
    /\ op.assignment.x # Null /\ op.assignment.y # Null /\ op.assignment.z = Null
    /\ op.assignment.x # op.assignment.y
    /\ Len(input.dimensions) >= 2
    /\ input.dimensions[1].name = op.assignment.y
    /\ HasDimension(input, op.assignment.x)
    /\ Len(cube.data) > 0
    /\ NameSeq(cube.dimensions) = <<op.assignment.x, op.assignment.y>>

\* C5: in every cube reached, every coordinate key of every cell names a
\* dimension of the cube and every measure key of every cell names a measure
\* of the cube.
C5_CellKeysAreDeclared ==
    \A i \in 1..Len(cube.data) :
        /\ DOMAIN cube.data[i].coordinates \subseteq Range(NameSeq(cube.dimensions))
        /\ DOMAIN cube.data[i].measures \subseteq Range(NameSeq(cube.measures))

\* a pivot onto an axis the cube did not hold, applied to the result of a drillUp
C5_Witness ==
    /\ op.type = "pivot"
    /\ now = 2
    /\ input.metadata.lastUpdated = 1
    /\ Len(input.measures) = 1
    /\ op.assignment.x = "Missing"
    /\ Len(cube.data) > 0
    /\ "Missing" \in DOMAIN cube.data[1].coordinates

NoChildPresent(c, d) ==
    \A i \in 1..Len(c.data) :
        LET key == ToStringJS(Coord(c.data[i], d))
            childMap == FindDimension(c, d).hierarchy.childMap
        IN  key \notin DOMAIN childMap \/ Len(childMap[key]) = 0

\* C7: drillDown returns its input unchanged when the dimension does not
\* exist, when it carries no hierarchy, and when no present value of it has a
\* child in hierarchy.childMap.
C7_DrillDownFailsClosed ==
    (op.type = "drill-down"
        /\ (\/ ~HasDimension(input, op.dimension)
            \/ ~FindDimension(input, op.dimension).hierarchy.present
            \/ NoChildPresent(input, op.dimension)))
        => cube = input

\* a drillDown on a dimension with a hierarchy whose present values have no child
C7_Witness ==
    /\ op.type = "drill-down"
    /\ HasDimension(input, op.dimension)
    /\ FindDimension(input, op.dimension).hierarchy.present
    /\ DOMAIN FindDimension(input, op.dimension).hierarchy.childMap # {}
    /\ Len(input.data) > 0
    /\ Len(input.measures) > 0
    /\ NoChildPresent(input, op.dimension)
    /\ cube = input

\* C8: pivot returns its input unchanged when no axis is set and when no
\* measure is resolvable; otherwise the result has exactly one measure, named
\* by the assignment's measure if set and else by the input's first measure.
C8_PivotMeasure ==
    op.type = "pivot" =>
        IF Len(SuppliedAxes(op.assignment)) = 0 \/ ~MeasureResolvable(input, op.assignment)
        THEN cube = input
        ELSE /\ Len(cube.measures) = 1
             /\ cube.measures[1].name =
                    (IF op.assignment.measure # Null THEN op.assignment.measure
                     ELSE input.measures[1].name)

\* a pivot whose assignment names the input's second measure
C8_Witness ==
    /\ op.type = "pivot"
    /\ Len(SuppliedAxes(op.assignment)) > 0
    /\ Len(input.measures) = 2
    /\ op.assignment.measure = input.measures[2].name
    /\ NameSeq(cube.measures) = <<input.measures[2].name>>
    /\ Len(cube.data) > 0

C10_SliceIdempotent ==
    op.type = "slice" => sliceCube(cube, op.dimension, op.value) = cube

\* a slice that has kept one cell of two
C10_Witness ==
    /\ op.type = "slice"
    /\ Len(input.data) = 2
    /\ Len(cube.data) = 1
    /\ Coord(cube.data[1], op.dimension) = op.value

\* C11: for every dimension d and values v1, v2, the cells dice keeps for
\* {d: [v1, v2]} are the cells slice keeps for (d, v1) together with the cells
\* slice keeps for (d, v2); this holds of the dice applied last on its input,
\* and of every such dice and pair of slices of the current cube.
C11_DiceIsUnionOfSlices ==
    /\ \A d \in DimensionArgs : \A v1 \in ValueArgs(d) : \A v2 \in ValueArgs(d) :
          Range(diceCube(cube, [k \in {d} |-> <<v1, v2>>]).data)
              = Range(sliceCube(cube, d, v1).data) \cup Range(sliceCube(cube, d, v2).data)
    /\ (op.type = "dice" /\ \E d \in DOMAIN op.conditions :
                               DOMAIN op.conditions = {d} /\ Len(op.conditions[d]) = 2)
          => LET d == CHOOSE k \in DOMAIN op.conditions : TRUE
                 values == op.conditions[d]
             IN  Range(cube.data)
                     = Range(sliceCube(input, d, values[1]).data)
                       \cup Range(sliceCube(input, d, values[2]).data)

\* a dice by two values of one dimension that keeps two cells, one for each value
C11_Witness ==
    /\ op.type = "dice"
    /\ \E d \in DOMAIN op.conditions :
          /\ DOMAIN op.conditions = {d}
          /\ Len(op.conditions[d]) = 2
          /\ Len(sliceCube(input, d, op.conditions[d][1]).data) = 1
          /\ Len(sliceCube(input, d, op.conditions[d][2]).data) = 1
    /\ Len(cube.data) = 2

\* the total of the first measure of cube c over the cells of cube r
FirstMeasureTotal(c, r) ==
    IF Len(c.measures) = 0 THEN 0 ELSE Total(r.data, c.measures[1].name)

\* drillDown on d, then drillUp on d
RoundTrip(c, d, tzWest) ==
    drillUp(drillDown(c, d, "detailed"), d, "summary", tzWest, now + 1)

\* the cube the records were loaded into
Loaded == createOLAPCube(records, 0)

\* the last operator was a drillUp on d applied to the drillDown on d of the
\* loaded cube
RoundTripApplied ==
    /\ now = 2
    /\ op.type = "drill-up"
    /\ input = drillDown(Loaded, op.dimension, "detailed")

NoNegativeValue(c) ==
    \A i \in 1..Len(c.data) : \A m \in DOMAIN c.data[i].measures :
        c.data[i].measures[m] >= 0

\* C12 as stated: a drillDown on d followed by a drillUp on d gives a cube whose
\* total of the first measure does not exceed the total of that measure in the
\* cube the drillDown was applied to.
C12_RoundTripTotalNotAbove ==
    RoundTripApplied =>
        FirstMeasureTotal(Loaded, cube) <= FirstMeasureTotal(Loaded, Loaded)

\* C12 as amended: the total after the round trip is the total over the cells
\* the drillDown retains, and it does not exceed the original total when no
\* cell holds a negative measure value.  It holds of the round trip applied to
\* the loaded cube, and of the round trip computed on every cube that an
\* operator can still be applied to.
C12_RoundTripTotalOfRetainedCells ==
    /\ RoundTripApplied =>
          /\ FirstMeasureTotal(Loaded, cube) = FirstMeasureTotal(Loaded, input)
          /\ NoNegativeValue(Loaded) =>
                 FirstMeasureTotal(Loaded, cube) <= FirstMeasureTotal(Loaded, Loaded)
    /\ now < MaxOps =>
          \A d \in DimensionArgs : \A tzWest \in BOOLEAN :
              /\ FirstMeasureTotal(cube, RoundTrip(cube, d, tzWest))
                     = FirstMeasureTotal(cube, drillDown(cube, d, "detailed"))
              /\ NoNegativeValue(cube) =>
                     FirstMeasureTotal(cube, RoundTrip(cube, d, tzWest))
                         <= FirstMeasureTotal(cube, cube)

\* a round trip on Product whose drillDown has dropped one of two cells of
\* positive value: the total after it is below the original
C12_Witness ==
    /\ RoundTripApplied
    /\ Len(Loaded.data) = 2
    /\ Len(input.data) = 1
    /\ NoNegativeValue(Loaded)
    /\ FirstMeasureTotal(Loaded, cube) = 10
    /\ FirstMeasureTotal(Loaded, Loaded) = 20

MeasureNames(measures) == {measures[i].name : i \in 1..Len(measures)}

\* C13: for a non-empty record set, every column of the first record is
\* reported as a dimension or as a measure, and none as both.
C13_SchemaPartitionsColumns ==
    (op.type = "load" /\ Len(records.rows) > 0) =>
        \A key \in Range(records.keys) :
            (key \in DimensionNames(cube.dimensions))
                # (key \in MeasureNames(cube.measures))

\* a loaded record set with a numeric Sales column and a Profit column that
\* holds no numeric value: Sales is a measure, Profit is neither a dimension
\* nor a measure
C13_Witness ==
    /\ op.type = "load"
    /\ Len(records.rows) > 0
    /\ "Profit" \in Range(records.keys)
    /\ "Sales" \in MeasureNames(cube.measures)
    /\ "Profit" \notin DimensionNames(cube.dimensions)
    /\ "Profit" \notin MeasureNames(cube.measures)

\* C14: the loaded cube holds one cell per record, in record order; a cell's
\* coordinates are the record's values at the dimension names, unmodified, and
\* its measures the record's values at the measure names converted to a number,
\* 0 where the conversion fails; totalRecords is the number of records; no
\* record gives no dimension, no measure and no cell.
C14_OneCellPerRecord ==
    op.type = "load" =>
        /\ Len(cube.data) = Len(records.rows)
        /\ cube.metadata.totalRecords = Len(records.rows)
        /\ \A i \in 1..Len(records.rows) :
              LET row == records.rows[i]
                  cell == cube.data[i]
              IN  /\ DOMAIN cell.coordinates = DimensionNames(cube.dimensions)
                  /\ \A d \in DOMAIN cell.coordinates :
                        SameTypeAndValue(cell.coordinates[d], row[d])
                  /\ DOMAIN cell.measures = MeasureNames(cube.measures)
                  /\ \A m \in DOMAIN cell.measures :
                        cell.measures[m]
                            = IF ToNumberJS(row[m]).nan THEN 0 ELSE ToNumberJS(row[m]).n
        /\ Len(records.rows) = 0 =>
              /\ cube.dimensions = <<>>
              /\ cube.measures = <<>>
              /\ cube.data = <<>>

\* two loaded records, one with a number as coordinate and a Sales value that
\* is no number, which its cell holds as 0
C14_Witness ==
    /\ op.type = "load"
    /\ Len(records.rows) = 2
    /\ \E i \in 1..2 :
          /\ Field(records.rows[i], "Year") = Num(2024)
          /\ Field(records.rows[i], "Sales") = Str(<<"x">>)
          /\ "Sales" \in DOMAIN cube.data[i].measures
          /\ cube.data[i].measures["Sales"] = 0
          /\ cube.data[i].coordinates["Year"] = Num(2024)

\* the coordinates of a cell at the names of dims, as typed values
CoordinateTuple(cell, dims) == [k \in 1..Len(dims) |-> Coord(cell, dims[k])]

\* the last operator was a pivot that reached aggregateData
PivotAggregated ==
    /\ op.type = "pivot"
    /\ Len(SuppliedAxes(op.assignment)) > 0
    /\ MeasureResolvable(input, op.assignment)

\* C15: aggregateData puts two cells in one group exactly when their
\* coordinates at every grouping dimension are of the same type and value, so a
\* pivot gives one cell for each distinct tuple of such coordinates among the
\* input's cells.
C15_GroupsByStrictEquality ==
    PivotAggregated =>
        Len(cube.data)
            = Cardinality({CoordinateTuple(input.data[i], SuppliedAxes(op.assignment)) :
                              i \in 1..Len(input.data)})

\* a pivot on Year of a cube with one cell for the number 2024 and one for the
\* string "2024" has put both in a single cell
C15_Witness ==
    /\ PivotAggregated
    /\ SuppliedAxes(op.assignment) = <<"Year">>
    /\ Len(input.data) = 2
    /\ Coord(input.data[1], "Year") = Num(2024)
    /\ Coord(input.data[2], "Year") = Str(Text2024)
    /\ Len(cube.data) = 1

\* the cells of the call's data that aggregateData has put in the group of key k
GroupOf(k) ==
    LET InGroup(cell) == GroupKey(cell, call.groupByDimensions) = k
    IN  SelectSeq(call.data, InGroup)

\* the values of the call's measure in a sequence of cells, a missing one as 0
ValuesOf(group) ==
    [i \in 1..Len(group) |->
        IF call.measureName \in DOMAIN group[i].measures
        THEN group[i].measures[call.measureName] ELSE 0]

\* C16: a call of aggregateData gives exactly one cell for each group; its
\* coordinate keys are the grouping dimensions, with the values of the group's
\* first cell; its only measure is measureName, with the sum, the count, the
\* least, the greatest or the sum divided by the count of the group's values, a
\* missing value counted as 0; the counts of all groups add up to the number
\* of input cells.
C16_OneAggregateCellPerGroup ==
    call.aggregationType # Null =>
        LET dims == call.groupByDimensions
            keys == {GroupKey(call.data[i], dims) : i \in 1..Len(call.data)}
            result == call.result
        IN  /\ Len(result) = Cardinality(keys)
            /\ \A k \in keys :
                  Cardinality({j \in 1..Len(result) : GroupKey(result[j], dims) = k}) = 1
            /\ \A j \in 1..Len(result) :
                  LET group == GroupOf(GroupKey(result[j], dims))
                      values == ValuesOf(group)
                      value == result[j].measures[call.measureName]
                  IN  /\ Len(group) > 0
                      /\ DOMAIN result[j].coordinates = Range(dims)
                      /\ \A d \in Range(dims) :
                            SameTypeAndValue(result[j].coordinates[d], Coord(group[1], d))
                      /\ DOMAIN result[j].measures = {call.measureName}
                      /\ call.aggregationType = "sum" => value = SumSeq(values)
                      /\ call.aggregationType = "count" => value = Len(group)
                      /\ call.aggregationType = "min" =>
                            /\ \E i \in 1..Len(values) : value = values[i]
                            /\ \A i \in 1..Len(values) : value <= values[i]
                      /\ call.aggregationType = "max" =>
                            /\ \E i \in 1..Len(values) : value = values[i]
                            /\ \A i \in 1..Len(values) : value >= values[i]
                      /\ call.aggregationType = "average" =>
                            /\ value.den > 0
                            /\ value.num * Len(group) = SumSeq(values) * value.den
            /\ call.aggregationType = "count" =>
                  SumSeq([j \in 1..Len(result) |-> result[j].measures[call.measureName]])
                      = Len(call.data)

\* an average over one group of two cells with the values 10 and -5
C16_Witness ==
    /\ call.aggregationType = "average"
    /\ Len(call.data) = 2
    /\ ValuesOf(call.data) = <<10, 0 - 5>>
    /\ Len(call.result) = 1
    /\ call.result[1].measures[call.measureName] = [num |-> 5, den |-> 2]

\* C17: in every cube reached, the value of each measure is the sum of that
\* measure over the cube's current cells.
C17_MeasureValueIsCurrentTotal ==
    \A i \in 1..Len(cube.measures) :
        cube.measures[i].value = Total(cube.data, cube.measures[i].name)

\* a slice has kept one of two cells, and the value of the first measure is
\* still the total over both
C17_Witness ==
    /\ op.type = "slice"
    /\ Len(input.data) = 2
    /\ Len(cube.data) = 1
    /\ Len(cube.measures) > 0
    /\ cube.measures[1].value = Total(input.data, cube.measures[1].name)
    /\ cube.measures[1].value # Total(cube.data, cube.measures[1].name)

\* the dimensions of the loaded cube that carry a hierarchy
HierarchiesBuilt ==
    {cube.dimensions[i].hierarchy : i \in {j \in 1..Len(cube.dimensions) :
                                              cube.dimensions[j].hierarchy.present}}

\* child is listed in childMap[parent]
ListedChild(h, parent, child) ==
    /\ parent \in DOMAIN h.childMap
    /\ \E i \in 1..Len(h.childMap[parent]) : ToStringJS(h.childMap[parent][i]) = child

\* C18: in every hierarchy schema inference builds, parentMap[c] = p implies
\* that c is listed in childMap[p], and c listed in childMap[p] implies
\* parentMap[c] = p.
C18_ParentAndChildMapsAreDuals ==
    op.type = "load" =>
        \A h \in HierarchiesBuilt :
            /\ \A c \in DOMAIN h.parentMap : ListedChild(h, h.parentMap[c], c)
            /\ \A p \in DOMAIN h.childMap : \A i \in 1..Len(h.childMap[p]) :
                  LET c == ToStringJS(h.childMap[p][i])
                  IN  c \in DOMAIN h.parentMap /\ h.parentMap[c] = p

\* a loaded Date column that holds the month "2024-01": childMap lists the
\* month as a child of itself, and parentMap gives it the year as parent
C18_Witness ==
    /\ op.type = "load"
    /\ records.keys = <<"Date">>
    /\ \E h \in HierarchiesBuilt :
          /\ ListedChild(h, Jan, Jan)
          /\ h.parentMap[Jan] = Text2024

\* the number of numeric values in the loaded column of a name
NumericCount(name) ==
    Cardinality({i \in 1..Len(records.rows) : IsNumeric(Field(records.rows[i], name))})

\* the column names of the model whose lower case contains "date" or "time"
TemporalNames == {"Date", "Time"}

\* C19: a column that becomes a dimension is numerical if more than 80% of its
\* values are numeric, else temporal if its name contains "date" or "time",
\* else categorical; with exactly 80% numeric values it is not numerical.
C19_KindByThreshold ==
    op.type = "load" =>
        \A i \in 1..Len(cube.dimensions) :
            LET dim == cube.dimensions[i]
                numeric == NumericCount(dim.name)
                length == Len(records.rows)
            IN  /\ dim.type = IF 5 * numeric > 4 * length THEN "numerical"
                              ELSE IF dim.name \in TemporalNames THEN "temporal"
                              ELSE "categorical"
                /\ 5 * numeric = 4 * length => dim.type # "numerical"

\* a loaded column of five values, four of them numeric, is categorical
C19_Witness ==
    /\ op.type = "load"
    /\ Len(records.rows) = 5
    /\ Len(cube.dimensions) = 1
    /\ cube.dimensions[1].name = "Region"
    /\ NumericCount("Region") = 4
    /\ cube.dimensions[1].type = "categorical"

\* the column names of the model that contain sales, revenue, profit, amount
\* or quantity
MeasureLikeNames == {"Sales", "Profit", "Quantity"}

\* the columns of a loaded, non-empty record set that hold no numeric value
\* and have no measure-like name
NonNumericColumns ==
    IF op.type = "load" /\ Len(records.rows) > 0
    THEN {key \in Range(records.keys) :
             NumericCount(key) = 0 /\ key \notin MeasureLikeNames}
    ELSE {}

\* C20 as stated: a column with no numeric value and no measure-like name is a
\* categorical dimension.
C20_NonNumericIsCategorical ==
    \A key \in NonNumericColumns :
        /\ HasDimension(cube, key)
        /\ FindDimension(cube, key).type = "categorical"

\* C20 as amended: a column with no numeric value and no measure-like name is
\* a dimension, temporal if its name contains "date" or "time" and categorical
\* otherwise.
C20_NonNumericIsTemporalOrCategorical ==
    \A key \in NonNumericColumns :
        /\ HasDimension(cube, key)
        /\ FindDimension(cube, key).type
               = IF key \in TemporalNames THEN "temporal" ELSE "categorical"

\* a loaded record set whose Date and Region columns hold no numeric value:
\* Date is temporal, Region categorical
C20_Witness ==
    /\ {"Date", "Region"} \subseteq NonNumericColumns
    /\ FindDimension(cube, "Date").type = "temporal"
    /\ FindDimension(cube, "Region").type = "categorical"

\* the sum of the values of the loaded column of a name that convert to a number
ColumnSum(name) ==
    SumSeq([i \in 1..Len(records.rows) |->
               LET x == ToNumberJS(Field(records.rows[i], name))
               IN  IF x.nan THEN 0 ELSE x.n])

\* C21: a column of a loaded, non-empty record set is reported as a measure
\* exactly when it is no dimension and its name is measure-like or every one
\* of its values converts to a number; every measure is of type sum and its
\* value is the sum of its column over all records.
C21_MeasureIffQualifies ==
    (op.type = "load" /\ Len(records.rows) > 0) =>
        /\ \A key \in Range(records.keys) :
              (key \in MeasureNames(cube.measures))
                  <=> /\ key \notin DimensionNames(cube.dimensions)
                      /\ \/ key \in MeasureLikeNames
                         \/ NumericCount(key) = Len(records.rows)
        /\ \A i \in 1..Len(cube.measures) :
              /\ cube.measures[i].type = "sum"
              /\ cube.measures[i].value = ColumnSum(cube.measures[i].name)

\* a loaded Sales column of five values, none of them numeric: it is no
\* dimension, its name is measure-like, and no measure is reported
C21_Witness ==
    /\ op.type = "load"
    /\ records.keys = <<"Sales">>
    /\ Len(records.rows) = 5
    /\ NumericCount("Sales") = 0
    /\ cube.dimensions = <<>>
    /\ cube.measures = <<>>

\* C22: in every hierarchy schema inference builds, no child is listed more
\* than once in an entry of childMap, however many records share a year, a
\* month or a date.
C22_NoChildListedTwice ==
    op.type = "load" =>
        \A h \in HierarchiesBuilt : \A p \in DOMAIN h.childMap :
            \A i, j \in 1..Len(h.childMap[p]) :
                h.childMap[p][i] = h.childMap[p][j] => i = j

\* two loaded records of the same day "2024-01-15": the month is listed twice
\* under its year and the day twice under its month
C22_Witness ==
    /\ op.type = "load"
    /\ records.keys = <<"Date">>
    /\ Len(records.rows) = 2
    /\ \A i \in 1..2 : Field(records.rows[i], "Date") = Str(Jan15)
    /\ \E h \in HierarchiesBuilt :
          /\ DOMAIN h.childMap = {Text2024, Jan}
          /\ h.childMap[Text2024] = <<Str(Jan), Str(Jan)>>
          /\ h.childMap[Jan] = <<Str(Jan15), Str(Jan15)>>

-----------------------------------------------------------------------------
(* Drilling: record sets with a Product or a Date hierarchy, with and       *)
(* without a numeric Sales value, and drillDown and drillUp as the operators. *)

DrillShapes ==
    { [keys |-> <<"Product", "Category", "Sales">>,
       vals |-> [Product |-> {Str(<<"A">>), Str(<<"B">>)},
                 Category |-> {Str(<<"A">>), Str(<<"C">>)},
                 Sales |-> {Num(10), Str(<<"x">>)}]],
      [keys |-> <<"Date", "Sales">>,
       vals |-> [Date |-> {Str(Jan15), Str(Feb01), Str(Jan), Str(Text2024)},
                 Sales |-> {Num(10), Str(<<"x">>)}]] }

DrillValues == UNION {UNION Range(sh.vals) : sh \in DrillShapes}

DrillRowsOf(sh) ==
    {r \in [Range(sh.keys) -> DrillValues] : \A k \in DOMAIN r : r[k] \in sh.vals[k]}

DrillDatasets ==
    UNION {{[keys |-> sh.keys, rows |-> rows] :
               rows \in UNION {[1..n -> DrillRowsOf(sh)] : n \in 0..MaxRecords}} :
           sh \in DrillShapes}

InitDrilling ==
    /\ records \in DrillDatasets
    /\ cube = createOLAPCube(records, 0)
    /\ input = cube
    /\ op = Operation("load")
    /\ now = 0
    /\ call = NoCall

NextDrilling == DrillDown \/ DrillUp

SpecDrilling == InitDrilling /\ [][NextDrilling]_vars

\* the coordinate of cell for d is listed, in the hierarchy of d in c, as a
\* child of the coordinate of some cell of c
ChildOfPresent(c, d, cell) ==
    \E i \in 1..Len(c.data) :
        ListedChild(FindDimension(c, d).hierarchy,
                    ToStringJS(Coord(c.data[i], d)),
                    ToStringJS(Coord(cell, d)))

\* the cells of c, in order, whose coordinate for d is a child of a present value
ChildCells(c, d) ==
    LET Keep(cell) == ChildOfPresent(c, d, cell)
    IN  SelectSeq(c.data, Keep)

\* the dimension has a hierarchy and some present value of it has a child
DrillDownApplies ==
    /\ op.type = "drill-down"
    /\ HasDimension(input, op.dimension)
    /\ FindDimension(input, op.dimension).hierarchy.present
    /\ ~NoChildPresent(input, op.dimension)

-----------------------------------------------------------------------------
(* Drilling up *)

\* a text coordinate cut to the next coarser level: a day to its month prefix,
\* a month to its year prefix, anything else as it is
Truncation(v) ==
    IF v.t # "string" THEN v
    ELSE IF IsDayText(v.s) THEN Str(SubSeq(v.s, 1, 7))
    ELSE IF IsMonthText(v.s) THEN Str(SubSeq(v.s, 1, 4))
    ELSE v

\* the drillUp under way acts: the cube holds a cell and a measure
DrillUpApplies ==
    /\ op.type = "drill-up"
    /\ Len(input.data) > 0
    /\ Len(input.measures) > 0

\* C24: drillUp rewrites the text coordinate of every cell by truncation, a
\* day to its own month prefix, a month to its own year prefix, a year to
\* itself, in every environment: the truncation of every input cell's
\* coordinate is the coordinate of a result cell.
C24_DrillUpTruncates ==
    DrillUpApplies =>
        \A i \in 1..Len(input.data) :
            Coord(input.data[i], op.dimension).t = "string" =>
                \E j \in 1..Len(cube.data) :
                    Coord(cube.data[j], op.dimension)
                        = Truncation(Coord(input.data[i], op.dimension))

\* a drillUp on Date, west of Greenwich, of a cube that holds the day
\* "2024-02-01" and no day of January: the result holds the month "2024-01"
C24_Witness ==
    /\ DrillUpApplies
    /\ op.dimension = "Date"
    /\ op.tzWest
    /\ \A i \in 1..Len(input.data) : Coord(input.data[i], "Date") = Str(Feb01)
    /\ \A j \in 1..Len(cube.data) : Coord(cube.data[j], "Date") = Str(Jan)

\* no two cells of c agree on the coordinates of all dimensions of c
OneCellPerTuple(c) ==
    \A i, j \in 1..Len(c.data) :
        (\A d \in DimensionNames(c.dimensions) : Coord(c.data[i], d) = Coord(c.data[j], d))
            => i = j

\* the uniqueValues of the k-th dimension of c are, each once, the values of
\* that coordinate among the cells of c
UniqueValuesOfCells(c, k) ==
    LET uniqueValues == c.dimensions[k].uniqueValues
    IN  /\ Range(uniqueValues)
              = {Coord(c.data[i], c.dimensions[k].name) : i \in 1..Len(c.data)}
        /\ \A i, j \in 1..Len(uniqueValues) : uniqueValues[i] = uniqueValues[j] => i = j

\* what C25 says of the cube an aggregating operator returns
AggregatedCube ==
    /\ OneCellPerTuple(cube)
    /\ \A k \in 1..Len(cube.dimensions) :
          (op.type = "pivot" \/ cube.dimensions[k].name = op.dimension)
              => UniqueValuesOfCells(cube, k)
    /\ \A k \in 1..Len(cube.measures) :
          cube.measures[k].value = Total(cube.data, cube.measures[k].name)

\* C25: after a drillUp of a cube with a cell and a measure, and after a pivot
\* with an axis and a resolvable measure, no two result cells agree on all
\* dimensions of the result, the uniqueValues of the drilled dimension (for
\* pivot: of every axis dimension) are the distinct values of that coordinate
\* among the result cells, and the value of the result's measure is the sum
\* of that measure over the result cells.
C25_AggregatedWhenApplied ==
    (DrillUpApplies \/ PivotAggregated) => AggregatedCube

\* C25 as stated: the same after every drillUp and every pivot, those that
\* return their input included.
C25_AggregatedAfterDrillUpAndPivot ==
    op.type \in {"drill-up", "pivot"} => AggregatedCube

\* a drillUp on Date, not west of Greenwich, that puts the cells of two
\* different months into the one cell of their year, with the sum of both
C25_Witness ==
    /\ DrillUpApplies
    /\ op.dimension = "Date"
    /\ ~op.tzWest
    /\ Len(input.data) = 2
    /\ Coord(input.data[1], "Date") # Coord(input.data[2], "Date")
    /\ Len(cube.data) = 1
    /\ Coord(cube.data[1], "Date") = Str(Text2024)
    /\ cube.measures[1].value = 20

\* C26: in every cube reached from the loaded cube by slice, dice, drillDown,
\* drillUp and pivot, those that return their input included,
\* metadata.totalRecords is the number of cells of the cube.
C26_TotalRecordsCountsCells ==
    /\ cube.metadata.totalRecords = Len(cube.data)
    /\ input.metadata.totalRecords = Len(input.data)

\* a second operator that retains one of the two cells the first one, a
\* drillUp or a pivot, had left
C26_Witness ==
    /\ now = 2
    /\ op.type \in {"slice", "dice", "drill-down"}
    /\ Len(input.data) = 2
    /\ Len(cube.data) = 1
    /\ Len(records.rows) = 2
    /\ input.metadata.lastUpdated = 1
    /\ cube.metadata.totalRecords = 1

\* a is b with some of its elements left out
IsSubSequence(a, b) ==
    \E keep \in SUBSET (1..Len(b)) :
        LET Kept(i) == i \in keep
            positions == SelectSeq([i \in 1..Len(b) |-> i], Kept)
        IN  a = [k \in 1..Len(positions) |-> b[positions[k]]]

\* C27: no operator gives a cube with more cells than the cube it was applied
\* to: slice, dice and drillDown give a sub-sequence of its cells, drillUp and
\* pivot at most as many cells; a cube without cells stays without cells.
C27_CellCountNeverIncreases ==
    [][/\ Len(cube'.data) <= Len(cube.data)
       /\ op'.type \in {"slice", "dice", "drill-down"}
              => IsSubSequence(cube'.data, cube.data)
       /\ Len(cube.data) = 0 => Len(cube'.data) = 0]_vars

\* a drillUp or pivot of a cube of two records that an operator before it had
\* left without cells: the result has no cell
C27_Witness ==
    /\ now = 2
    /\ op.type \in {"drill-up", "pivot"}
    /\ Len(records.rows) = 2
    /\ Len(input.data) = 0
    /\ Len(cube.data) = 0
    /\ cube.metadata.lastUpdated = 2

\* every record holds a Date of the form YYYY-MM-DD
AllFullDates ==
    /\ "Date" \in Range(records.keys)
    /\ \A i \in 1..Len(records.rows) :
          /\ Field(records.rows[i], "Date").t = "string"
          /\ IsDayText(Field(records.rows[i], "Date").s)

\* the last operator was a drillDown on Date applied to the drillUp on Date of
\* the cube loaded from records of full dates, in either time zone
DownAfterUpApplied ==
    /\ now = 2
    /\ op.type = "drill-down"
    /\ op.dimension = "Date"
    /\ AllFullDates
    /\ \E tzWest \in BOOLEAN : input = drillUp(Loaded, "Date", "summary", tzWest, 1)

\* the cube holds a cell whose Date coordinate is of the form YYYY-MM-DD
HoldsDayCell(c) ==
    \E i \in 1..Len(c.data) : IsDayText(ToStringJS(Coord(c.data[i], "Date")))

\* C28: for records of full dates that give the cube a measure, drillDown on
\* Date of the result of drillUp on Date has no cell or is the drilled-up cube
\* unchanged, and holds no cell with a Date of the form YYYY-MM-DD.
C28_DrillDownRestoresNoDay ==
    (DownAfterUpApplied /\ Len(Loaded.measures) > 0) =>
        /\ Len(cube.data) = 0 \/ cube = input
        /\ ~HoldsDayCell(cube)

\* C28 as stated: the same for all records of full dates.
C28_DrillDownRestoresNoDayOfAnyCube ==
    DownAfterUpApplied =>
        /\ Len(cube.data) = 0 \/ cube = input
        /\ ~HoldsDayCell(cube)

\* records of two days with a measure: the drillUp left month cells, whose
\* children are the days, and the drillDown retains none of them
C28_Witness ==
    /\ DownAfterUpApplied
    /\ Len(Loaded.measures) > 0
    /\ Len(Loaded.data) = 2
    /\ HoldsDayCell(Loaded)
    /\ Len(input.data) > 0
    /\ ~HoldsDayCell(input)
    /\ Len(cube.data) = 0

\* C29: the result of a drillUp of a cube with a cell and a measure lists one
\* measure, the first measure of that cube, and each of its cells carries
\* that measure and no other.
C29_DrillUpKeepsFirstMeasureOnly ==
    DrillUpApplies =>
        /\ NameSeq(cube.measures) = <<input.measures[1].name>>
        /\ \A i \in 1..Len(cube.data) :
              DOMAIN cube.data[i].measures = {input.measures[1].name}

\* a drillUp of a cube whose cells carry Sales and Profit: the result lists
\* Sales alone and none of its cells carries Profit
C29_Witness ==
    /\ DrillUpApplies
    /\ NameSeq(input.measures) = <<"Sales", "Profit">>
    /\ \A i \in 1..Len(input.data) : DOMAIN input.data[i].measures = {"Sales", "Profit"}
    /\ NameSeq(cube.measures) = <<"Sales">>
    /\ Len(cube.data) > 0
    /\ \A i \in 1..Len(cube.data) : "Profit" \notin DOMAIN cube.data[i].measures

\* C30: every measure of a loaded record set is a column with a measure-like
\* name; a column of a non-empty record set without such a name is a
\* dimension and no measure, whether or not all its values are numeric.
C30_MeasuresHaveMeasureLikeNames ==
    op.type = "load" =>
        /\ MeasureNames(cube.measures) \subseteq MeasureLikeNames
        /\ Len(records.rows) > 0 =>
              \A key \in Range(records.keys) \ MeasureLikeNames :
                  /\ key \in DimensionNames(cube.dimensions)
                  /\ key \notin MeasureNames(cube.measures)

\* a loaded Region column of five numeric values: a numerical dimension, and
\* no measure
C30_Witness ==
    /\ op.type = "load"
    /\ records.keys = <<"Region">>
    /\ Len(records.rows) = 5
    /\ NumericCount("Region") = 5
    /\ NameSeq(cube.dimensions) = <<"Region">>
    /\ cube.dimensions[1].type = "numerical"
    /\ cube.measures = <<>>

====
